---- MODULE Spec2Model ----
(***************************************************************************)
(* Single-position trading environment (bot/src/trade_environment.py,     *)
(* class TradingEnv): account, position and trade ledger, the step/reset  *)
(* state machine and the values step() and reset() return.                *)
(*                                                                         *)
(* Units.  Prices are whole currency units, lots are counted in           *)
(* hundredths of a lot and money (balance, pnl) in hundredths of a        *)
(* currency unit, so pnl = price difference * lot size is exact.  The     *)
(* Python floats are read as the exact decimals they denote.  Quotients   *)
(* (reward, win rate, drawdown) are kept as fractions num/den.            *)
(***************************************************************************)
EXTENDS Integers, Sequences, FiniteSets, TLC

(***************************************************************************)
(* Bounds of the exploration.                                              *)
(***************************************************************************)
\* reset() is called at most MaxEpisodes times
MaxEpisodes == 1
\* Buy/Sell/Close are issued only in the first ActiveHead steps of an episode
ActiveHead == 2
\* ... or from cursor data_length - 2 - ActiveTail on; elsewhere the policy holds
ActiveTail == 1
\* data_length ranges over MIN_BARS .. MIN_BARS + ExtraBars
ExtraBars == 1
\* the states of the random generator are 0 .. RngStates - 1
RngStates == 4
\* with two instances: the first one takes at most SharedSteps steps an episode
SharedSteps == 2
\* ... and the second one at most OtherSteps
OtherSteps == 1

(***************************************************************************)
(* Program constants.                                                      *)
(***************************************************************************)
\* self.PIP_VALUE = 0.0001, as pips per price unit
PIPS_PER_UNIT == 10000
\* self.POINT_VALUE = 0.01, as points per price unit
POINTS_PER_UNIT == 100
\* self.MIN_LOTS = 0.01, in hundredths of a lot
MIN_LOTS == 1
\* self.MAX_LOTS = 100.0, in hundredths of a lot
MAX_LOTS == 10000
\* self.MAX_DRAWDOWN = 0.5
MAX_DRAWDOWN == [num |-> 1, den |-> 2]
\* minimum number of rows after preprocessing, and the runway kept by reset
MIN_BARS == 100
\* hold time at which the hold factor of _close_position saturates
HOLD_SCALE == 20
\* constructor argument initial_balance (100.00), in hundredths
initial_balance == 10000
\* constructor argument balance_per_lot (10.00), in hundredths
BALANCE_PER_LOT == 1000
\* atr_period, the window of the rolling means of ATR and RSI
ATR_PERIOD == 14
\* the Bollinger window that enters the lookback of _preprocess_data
BOLLINGER_PERIOD == 20
RSI_WINDOW == 14

None == [is_none |-> TRUE]

Frac(n, d) == [num |-> n, den |-> d]

\* a/b = c/d for fractions with positive denominators
FracEq(a, b) == a.num * b.den = b.num * a.den

\* a/b >= c/d for fractions with positive denominators
FracGeq(a, b) == a.num * b.den >= b.num * a.den

Max(a, b) == IF a >= b THEN a ELSE b

Min(a, b) == IF a <= b THEN a ELSE b

\* Python round(): n/d to the nearest integer, ties to the even one (d > 0).
\* (On a tie the float result depends on the binary value of the quotient;
\* the balances reached within the bounds produce no tie.)
Round(n, d) ==
  LET q == n \div d
      r == n % d
  IN  IF 2 * r < d THEN q
      ELSE IF 2 * r > d THEN q + 1
      ELSE IF q % 2 = 0 THEN q ELSE q + 1

(***************************************************************************)
(* The preprocessed data set: prices['close'], prices['spread'],          *)
(* prices['atr'] and original_index, all of length data_length.  A short  *)
(* head and tail of moving prices around a flat middle.                   *)
(***************************************************************************)
HeadClose == <<20, 20, 16, 10, 18>>

TailClose == <<18, 18, 11, 19>>

\* the flat middle continues the last head price
MidClose == HeadClose[Len(HeadClose)]

\* prices['close'][i] of a data set with len rows, 0 <= i < len
ClosePrice(len, i) ==
  IF i < Len(HeadClose) THEN HeadClose[i + 1]
  ELSE IF len - i <= Len(TailClose) THEN TailClose[Len(TailClose) - (len - i) + 1]
  ELSE MidClose

\* prices['spread'][i], in points (whole price units: multiples of 100 points)
SpreadPoints(len, i) == IF i % 2 = 0 THEN 100 ELSE 200

\* prices['atr'][i]
AtrValue(len, i) == 2 + (i % 3)

\* original_index[i]: the timestamp of row i (rows before the lookback are dropped)
IndexTime(len, i) == 20 + i

VARIABLES
  data_length,          \* len(self.raw_data)
  random_start,         \* constructor argument
  current_step,
  balance,
  max_balance,
  previous_balance,
  trades,
  current_position,
  win_count,
  loss_count,
  reward,
  completed_episodes,
  episode_steps,
  trade_metrics,
  ret,                  \* what the last call returned (or that it raised)
  prev_ret,             \* what the call before it returned (see Earlier)
  n_rows,               \* number of rows of the bar table given to __init__
  columns,              \* the columns of that table
  built,                \* how the constructor ended, "pending" before it ran
  rng,                  \* state of the process-wide generator np.random
  other,                \* a second TradingEnv instance of the process, or None
  ref,                  \* the first instance, had it made its calls alone
  ref_rng,              \* the generator, had the first instance run alone
  all_seeded,           \* every reset() of the first instance passed a seed
  printed,              \* what the last render() wrote, None before any
  osc,                  \* a window of the momentum oscillator of __init__
  bot,                  \* the TradingBot of bot.py, None where there is none
  market,               \* the broker's bars as the bot's fetches see them
  trainer,              \* a run of train_ppo.py's main(), None where none
  disk                  \* the files of ../results/<seed> the runs share

vars == <<data_length, random_start, current_step, balance, max_balance,
          previous_balance, trades, current_position, win_count, loss_count,
          reward, completed_episodes, episode_steps, trade_metrics, ret,
          prev_ret, n_rows, columns, built, rng, other, ref, ref_rng,
          all_seeded, printed, osc, bot, market, trainer, disk>>

\* the variables that matter only when two instances share the process
shared_vars == <<rng, other, ref, ref_rng, all_seeded>>

\* the report last written, the oscillator window under computation, the
\* live bot with its market, and the training run with its files
side_vars == <<printed, osc, bot, market, trainer, disk>>

\* no oscillator window is being computed
IdleOsc ==
  [gain_sum |-> 0, loss_sum |-> 0, rs |-> None, rsi |-> None,
   feature |-> None]

\* the mutable fields of the TradingEnv instance as one value
Self ==
  [data_length |-> data_length, current_step |-> current_step,
   balance |-> balance, max_balance |-> max_balance,
   previous_balance |-> previous_balance, trades |-> trades,
   current_position |-> current_position, win_count |-> win_count,
   loss_count |-> loss_count, reward |-> reward,
   episode_steps |-> episode_steps, trade_metrics |-> trade_metrics]

ZeroMetrics ==
  [win_rate |-> Frac(0, 1), avg_profit |-> Frac(0, 1),
   avg_loss |-> Frac(0, 1), current_direction |-> 0]

\* the columns of the feature matrix raw_data, in order
FeatureColumns ==
  <<"returns", "rsi", "atr", "volatility_breakout", "trend_strength",
    "candle_pattern">>

\* no observation was returned
NoObs == [row |-> -1, width |-> 0, unrealized_pnl |-> Frac(0, 1)]

\* np.append(features, normalized_pnl): the features of one row of raw_data,
\* then the normalized unrealized pnl
Observation(row, normalized_pnl) ==
  [row |-> row, width |-> Len(FeatureColumns) + 1,
   unrealized_pnl |-> normalized_pnl]

NoInfo == [balance |-> 0, total_pnl |-> 0, drawdown |-> Frac(0, 1),
           position |-> None, trade_metrics |-> ZeroMetrics]

\* the record of a call: op, processed action, exception, returned values,
\* and the action as the caller passed it (filled in by StepCall)
Ret(op, action, raised, obs, rew, terminated, truncated, info) ==
  [op |-> op, action |-> action, raised |-> raised, obs |-> obs,
   reward |-> rew, terminated |-> terminated, truncated |-> truncated,
   info |-> info, raw |-> action]

RECURSIVE SumPnl(_)
SumPnl(ts) == IF ts = <<>> THEN 0 ELSE ts[1].pnl + SumPnl(Tail(ts))

\* variant of ProcessAction: the remainder takes the sign of the action
ProcessActionTruncating(action) ==
  IF action >= 0 THEN action % 4 ELSE -((-action) % 4)

(***************************************************************************)
(* _process_action: the action modulo 4.                                   *)
(***************************************************************************)
ProcessAction(action) == action % 4

\* variant of LotSize: the lot size is not clamped
LotSizeUnclamped(bal) == Round(bal * 100, BALANCE_PER_LOT)

\* the lot size _execute_trade computes from the balance, in hundredths
LotSize(bal) ==
  Max(MIN_LOTS, Min(MAX_LOTS, Round(bal * 100, BALANCE_PER_LOT)))

\* variant of HasPosition: the check for an existing position is missing
HasPositionNever(e) == FALSE

\* _execute_trade's check "we already have a position"
HasPosition(e) == e.current_position # None

\* variant of EntryPrice: the spread is added for a short as well
EntryPriceSpreadAdded(direction, current_price, raw_spread) ==
  current_price + raw_spread

\* the entry price of _execute_trade: the spread is paid on entry
EntryPrice(direction, current_price, raw_spread) ==
  current_price + (IF direction = 1 THEN raw_spread ELSE -raw_spread)

(***************************************************************************)
(* _execute_trade(direction, raw_spread) on the instance e.  Yields the    *)
(* instance afterwards, the returned value and the exception raised.       *)
(***************************************************************************)
ExecuteTrade(e, direction, raw_spread) ==
  IF HasPosition(e)
  THEN [self |-> e, val |-> Frac(0, 1), raised |-> "none"]
  ELSE IF e.current_step >= e.data_length
  THEN [self |-> e, val |-> Frac(0, 1), raised |-> "IndexError"]
  ELSE
    LET current_price == ClosePrice(e.data_length, e.current_step)
        current_atr == AtrValue(e.data_length, e.current_step)
        lot_size == LotSize(e.balance)
        pos == [direction |-> IF direction = 1 THEN 1 ELSE -1,
                entry_price |-> EntryPrice(direction, current_price, raw_spread),
                lot_size |-> lot_size,
                entry_time |-> IndexTime(e.data_length, e.current_step),
                entry_step |-> e.current_step,
                entry_atr |-> current_atr,
                current_profit_pips |-> 0]
    IN  [self |-> [e EXCEPT !.current_position = pos,
                            !.trade_metrics.current_direction = pos.direction],
         val |-> Frac(0, 1), raised |-> "none"]

\* the trades of ts with pnl > 0
RECURSIVE WinningTrades(_)
WinningTrades(ts) ==
  IF ts = <<>> THEN <<>>
  ELSE IF ts[1].pnl > 0 THEN <<ts[1]>> \o WinningTrades(Tail(ts))
  ELSE WinningTrades(Tail(ts))

\* the trades of ts with pnl <= 0
RECURSIVE LosingTrades(_)
LosingTrades(ts) ==
  IF ts = <<>> THEN <<>>
  ELSE IF ts[1].pnl <= 0 THEN <<ts[1]>> \o LosingTrades(Tail(ts))
  ELSE LosingTrades(Tail(ts))

\* variant of UpdatedMetrics: the metrics are not recomputed
UpdatedMetricsStale(m, ts) == m

\* the trade metrics _close_position recomputes from the trade list
UpdatedMetrics(m, ts) ==
  IF ts = <<>> THEN m
  ELSE
    LET winning_trades == WinningTrades(ts)
        losing_trades == LosingTrades(ts)
    IN  [m EXCEPT
          !.win_rate = Frac(Len(winning_trades), Len(ts)),
          !.avg_profit = IF winning_trades # <<>>
                         THEN Frac(SumPnl(winning_trades), Len(winning_trades))
                         ELSE Frac(0, 1),
          !.avg_loss = IF losing_trades # <<>>
                       THEN Frac(SumPnl(losing_trades), Len(losing_trades))
                       ELSE Frac(0, 1)]

\* variant of HoldTime: the bars of entry and of exit are both counted
HoldTimeBothBars(e) == e.current_step - e.current_position.entry_step + 1

\* the hold_time _close_position records
HoldTime(e) == e.current_step - e.current_position.entry_step

\* variant of CloseNothing: the penalty is charged to the balance
CloseNothingCharged(e) ==
  [self |-> [e EXCEPT !.balance = @ - (initial_balance \div 10)],
   val |-> Frac(-1, 10), raised |-> "none"]

\* variant of CloseNothing: no penalty value
CloseNothingZero(e) == [self |-> e, val |-> Frac(0, 1), raised |-> "none"]

\* _close_position() with no position: the penalty value, nothing changes
CloseNothing(e) == [self |-> e, val |-> Frac(-1, 10), raised |-> "none"]

\* variant of ProfitPoints: every position is priced as a long
ProfitPointsLongOnly(direction, current_price, entry_price) ==
  current_price - entry_price

\* the profit in price units of a position closed at current_price
ProfitPoints(direction, current_price, entry_price) ==
  IF direction = 1 THEN current_price - entry_price
  ELSE entry_price - current_price

\* variant of LossIncrement: a trade with pnl = 0 is counted nowhere
LossIncrementStrict(pnl) == IF pnl < 0 THEN 1 ELSE 0

\* what a closed trade with this pnl adds to loss_count
LossIncrement(pnl) == IF pnl > 0 THEN 0 ELSE 1

\* variant of Recorded: the closed trade is put in front of the history
RecordedInFront(ts, trade) == <<trade>> \o ts

\* self.trades.append(self.current_position)
Recorded(ts, trade) == Append(ts, trade)

\* variant of Credited: only a gain is added to the balance
CreditedGainsOnly(bal, pnl) == IF pnl > 0 THEN bal + pnl ELSE bal

\* self.balance += pnl
Credited(bal, pnl) == bal + pnl

(***************************************************************************)
(* _close_position() on the instance e.                                    *)
(***************************************************************************)
ClosePosition(e) ==
  IF e.current_position = None
  THEN CloseNothing(e)
  ELSE IF e.current_step >= e.data_length
  THEN [self |-> e, val |-> Frac(0, 1), raised |-> "IndexError"]
  ELSE
    LET current_price == ClosePrice(e.data_length, e.current_step)
        direction == e.current_position.direction
        entry_price == e.current_position.entry_price
        lot_size == e.current_position.lot_size
        entry_step == e.current_position.entry_step
        profit_points == ProfitPoints(direction, current_price, entry_price)
        pnl == profit_points * lot_size
        profit_pips == profit_points * PIPS_PER_UNIT
        hold_time == HoldTime(e)
        trade == [direction |-> direction,
                  entry_price |-> entry_price,
                  lot_size |-> lot_size,
                  entry_time |-> e.current_position.entry_time,
                  entry_step |-> entry_step,
                  entry_atr |-> e.current_position.entry_atr,
                  current_profit_pips |-> e.current_position.current_profit_pips,
                  exit_price |-> current_price,
                  exit_step |-> e.current_step,
                  exit_time |-> IndexTime(e.data_length, e.current_step),
                  profit_pips |-> profit_pips,
                  pnl |-> pnl,
                  hold_time |-> hold_time]
        new_trades == Recorded(e.trades, trade)
        hold_factor == Frac(Min(HOLD_SCALE, hold_time), HOLD_SCALE)
        normalized_pnl == Frac(pnl * 100, initial_balance)
    IN  [self |-> [e EXCEPT
                    !.win_count = IF pnl > 0 THEN @ + 1 ELSE @,
                    !.loss_count = @ + LossIncrement(pnl),
                    !.trades = new_trades,
                    !.balance = Credited(@, pnl),
                    !.current_position = None,
                    !.trade_metrics =
                        UpdatedMetrics([@ EXCEPT !.current_direction = 0],
                                       new_trades)],
         val |-> Frac(normalized_pnl.num * hold_factor.num,
                      normalized_pnl.den * hold_factor.den),
         raised |-> "none"]

(***************************************************************************)
(* _manage_position(): the unrealized pnl; refreshes current_profit_pips.  *)
(***************************************************************************)
ManagePosition(e) ==
  IF e.current_position = None
  THEN [self |-> e, val |-> 0, raised |-> "none"]
  ELSE IF e.current_step >= e.data_length
  THEN [self |-> e, val |-> 0, raised |-> "IndexError"]
  ELSE
    LET current_price == ClosePrice(e.data_length, e.current_step)
        direction == e.current_position.direction
        entry_price == e.current_position.entry_price
        lot_size == e.current_position.lot_size
        profit_points == IF direction = 1 THEN current_price - entry_price
                         ELSE entry_price - current_price
    IN  [self |-> [e EXCEPT !.current_position.current_profit_pips =
                                profit_points * PIPS_PER_UNIT],
         val |-> profit_points * lot_size, raised |-> "none"]

\* variant of CalculateReward: the change is measured from the peak balance
CalculateRewardFromPeak(e) == Frac(e.balance - e.max_balance, initial_balance)

\* calculate_reward(): the balance change of the step over the initial balance
CalculateReward(e) == Frac(e.balance - e.previous_balance, initial_balance)

\* variant of NormalizedPnl: the quotient is not clipped
NormalizedPnlUnclipped(unrealized_pnl) == Frac(unrealized_pnl, initial_balance)

\* np.clip(unrealized_pnl / self.initial_balance, -1, 1)
NormalizedPnl(unrealized_pnl) ==
  Frac(Max(-initial_balance, Min(initial_balance, unrealized_pnl)),
       initial_balance)

(***************************************************************************)
(* get_history(): the feature row at the cursor and the unrealized pnl     *)
(* over the initial balance, clipped to [-1, 1].                           *)
(***************************************************************************)
GetHistory(e) ==
  IF e.current_step >= e.data_length
  THEN [self |-> e, val |-> NoObs, raised |-> "IndexError"]
  ELSE IF e.current_position # None
  THEN LET m == ManagePosition(e)
       IN  [self |-> m.self,
            val |-> Observation(e.current_step, NormalizedPnl(m.val)),
            raised |-> m.raised]
  ELSE [self |-> e,
        val |-> Observation(e.current_step, Frac(0, 1)),
        raised |-> "none"]

\* the value of a call that raised: nothing is returned
Raised(op, action, exc) ==
  Ret(op, action, exc, NoObs, Frac(0, 1), FALSE, FALSE, NoInfo)

\* variant of EndOfData: the data ends one row later
EndOfDataPastEnd(e) == e.current_step > e.data_length - 1

\* step()'s end_of_data: the cursor is at the last row
EndOfData(e) == e.current_step >= e.data_length - 1

\* step()'s max_drawdown: the balance's distance below max_balance
Drawdown(e) == Frac(e.max_balance - e.balance, e.max_balance)

\* variant of Done: the drawdown limit itself does not end the episode
DoneStrict(e) ==
  \/ EndOfData(e)
  \/ e.balance <= 0
  \/ ~FracGeq(MAX_DRAWDOWN, Drawdown(e))

\* step()'s done: end of data, no money left or the drawdown limit reached
Done(e) ==
  \/ EndOfData(e)
  \/ e.balance <= 0
  \/ FracGeq(Drawdown(e), MAX_DRAWDOWN)

\* variant of AutoClose: the position is closed at the end of the data only
AutoCloseAtEndOnly(e, done) ==
  IF EndOfData(e) /\ e.current_position # None
  THEN ClosePosition(e)
  ELSE [self |-> e, val |-> Frac(0, 1), raised |-> "none"]

\* step()'s auto-close of the position at the end of the episode
AutoClose(e, done) ==
  IF done /\ e.current_position # None
  THEN ClosePosition(e)
  ELSE [self |-> e, val |-> Frac(0, 1), raised |-> "none"]

\* variant of Truncated: the flag is raised one row late
TruncatedPastEnd(e) == e.current_step > e.data_length - 1

\* step()'s truncated flag
Truncated(e) == e.current_step >= e.data_length - 1

\* the position snapshot of step()'s info map ({} when flat)
PositionInfo(e, unrealized_pnl) ==
  IF e.current_position = None THEN None
  ELSE [direction |-> IF e.current_position.direction = 1 THEN "long" ELSE "short",
        entry_price |-> e.current_position.entry_price,
        lot_size |-> e.current_position.lot_size,
        unrealized_pnl |-> unrealized_pnl,
        profit_pips |-> e.current_position.current_profit_pips,
        hold_time |-> e.current_step - e.current_position.entry_step]

\* variant of PeakBalance: the peak is overwritten with the balance
PeakBalanceOverwritten(e) == e.balance

\* step()'s refresh of the peak: max(self.balance, self.max_balance)
PeakBalance(e) == Max(e.balance, e.max_balance)

\* variant of SpreadRowMissing: any cursor is accepted as an index
SpreadRowMissingNever(e) == FALSE

\* step()'s first read, prices['spread'][current_step], is out of bounds
SpreadRowMissing(e) == e.current_step >= e.data_length

(***************************************************************************)
(* step() after _process_action, on the instance e: the instance           *)
(* afterwards and the call record.  An IndexError leaves the assignments   *)
(* made before it in place.                                                *)
(***************************************************************************)
StepBody(e, action) ==
  IF SpreadRowMissing(e)
  THEN [self |-> e, ret |-> Raised("step", action, "IndexError")]
  ELSE
    LET current_spread ==
          SpreadPoints(e.data_length, e.current_step) \div POINTS_PER_UNIT
        e1 == [e EXCEPT !.previous_balance = e.balance,
                        !.max_balance = PeakBalance(e),
                        !.episode_steps = @ + 1,
                        !.current_step = @ + 1]
        act == IF action = 1 THEN ExecuteTrade(e1, 1, current_spread)
               ELSE IF action = 2 THEN ExecuteTrade(e1, 2, current_spread)
               ELSE IF action = 3 THEN ClosePosition(e1)
               ELSE [self |-> e1, val |-> Frac(0, 1), raised |-> "none"]
    IN
    IF act.raised # "none"
    THEN [self |-> act.self, ret |-> Raised("step", action, act.raised)]
    ELSE
      LET man == ManagePosition(act.self)
          e2 == man.self
          unrealized_pnl == man.val
          max_drawdown == Drawdown(e2)
          done == Done(e2)
          auto == AutoClose(e2, done)
      IN
      IF man.raised # "none"
      THEN [self |-> e2, ret |-> Raised("step", action, man.raised)]
      ELSE IF auto.raised # "none"
      THEN [self |-> auto.self, ret |-> Raised("step", action, auto.raised)]
      ELSE
        LET rew == CalculateReward(auto.self)
            e3 == [auto.self EXCEPT !.reward = rew]
            hist == GetHistory(e3)
            e4 == hist.self
            truncated == Truncated(e4)
        IN
        IF hist.raised # "none"
        THEN [self |-> e4, ret |-> Raised("step", action, hist.raised)]
        ELSE [self |-> e4,
              ret |-> Ret("step", action, "none", hist.val, rew, done, truncated,
                          [balance |-> e4.balance,
                           total_pnl |-> e4.balance - initial_balance,
                           drawdown |-> Frac(max_drawdown.num * 100,
                                             max_drawdown.den),
                           position |-> PositionInfo(e4, unrealized_pnl),
                           trade_metrics |-> e4.trade_metrics])]

\* step(action): the action is normalised, then the step is taken
StepCall(e, raw_action) ==
  LET r == StepBody(e, ProcessAction(raw_action))
  IN  [self |-> r.self, ret |-> [r.ret EXCEPT !.raw = raw_action]]

\* variant of StartCursors: the upper end max_start can be drawn as well
StartCursorsUpTo(len) == 0 .. Max(0, len - MIN_BARS)

\* the start cursors np.random.randint(0, max_start) can draw
StartCursors(len) == 0 .. (Max(0, len - MIN_BARS) - 1)

(***************************************************************************)
(* reset() on the instance e with the cursor start drawn for it: the       *)
(* fields it assigns, then the observation it returns.                     *)
(***************************************************************************)
\* variant of ResetFields: the peak balance survives the reset
ResetFieldsKeepPeak(e, start) ==
  [e EXCEPT !.current_step = start,
            !.balance = initial_balance,
            !.previous_balance = initial_balance,
            !.trades = <<>>,
            !.current_position = None,
            !.win_count = 0,
            !.loss_count = 0,
            !.episode_steps = 0,
            !.trade_metrics = ZeroMetrics]

\* the fields reset() assigns
ResetFields(e, start) ==
  [e EXCEPT !.current_step = start,
            !.balance = initial_balance,
            !.max_balance = initial_balance,
            !.previous_balance = initial_balance,
            !.trades = <<>>,
            !.current_position = None,
            !.win_count = 0,
            !.loss_count = 0,
            !.episode_steps = 0,
            !.trade_metrics = ZeroMetrics]

ResetCall(e, start) ==
  LET e1 == ResetFields(e, start)
      hist == GetHistory(e1)
  IN  [self |-> hist.self,
       ret |-> IF hist.raised # "none" THEN Raised("reset", 0, hist.raised)
               ELSE Ret("reset", 0, "none", hist.val, Frac(0, 1), FALSE, FALSE,
                        [NoInfo EXCEPT !.balance = hist.self.balance])]

(***************************************************************************)
(* __init__ and _preprocess_data: which bar tables make an environment.    *)
(* A table is its set of columns and its number of rows; the values are    *)
(* defined numbers, so the only undefined feature values are those of the  *)
(* rolling means over ATR_PERIOD rows, which need a full window.           *)
(***************************************************************************)
\* the columns a bar table can have
AllColumns == {"open", "high", "low", "close", "spread", "volume"}

\* variant of RequiredColumns: volume is required as well
RequiredColumnsWithVolume == AllColumns

\* required_columns
RequiredColumns == {"open", "close", "high", "low", "spread"}

\* missing_columns, as a set
MissingColumns(cols) == RequiredColumns \ cols

\* the row positions 0 .. n - 1 of a table of n rows, in order
Rows(n) == [i \in 1 .. n |-> i - 1]

\* pd.Series(...).rolling(ATR_PERIOD).mean() is defined at row position i:
\* the window ending there holds ATR_PERIOD rows
RollingDefined(i) == i >= ATR_PERIOD - 1

\* features_df.dropna(): the rows whose 'atr' and 'rsi' features are defined
DropNa(rows) == SelectSeq(rows, RollingDefined)

\* lookback = max(20, atr_period)
Lookback == Max(BOLLINGER_PERIOD, ATR_PERIOD)

\* rows.iloc[k:]
ILocFrom(rows, k) == SubSeq(rows, k + 1, Len(rows))

\* valid_positions: the rows of the table that _preprocess_data keeps
ValidPositions(n) == ILocFrom(DropNa(Rows(n)), Lookback)

\* how __init__ ends for a table with columns cols and n rows, and the
\* data_length it stores
Construct(cols, n) ==
  IF MissingColumns(cols) # {}
  THEN [built |-> "ConfigurationError", data_length |-> 0]
  ELSE IF n = 0
  THEN [built |-> "IndexError", data_length |-> 0]
  ELSE IF Len(ValidPositions(n)) < MIN_BARS
  THEN [built |-> "InsufficientData", data_length |-> 0]
  ELSE [built |-> "ok", data_length |-> Len(ValidPositions(n))]

\* the largest table explored
MaxInputRows == MIN_BARS + ExtraBars + Lookback + ATR_PERIOD - 1

\* the state after the constructor
Init ==
  /\ data_length \in MIN_BARS .. (MIN_BARS + ExtraBars)
  /\ columns = AllColumns
  /\ n_rows \in {n \in 0 .. MaxInputRows :
                   Construct(columns, n).data_length = data_length}
  /\ built = "ok"
  /\ rng = 0
  /\ other = None
  /\ ref = None
  /\ ref_rng = 0
  /\ all_seeded = TRUE
  /\ printed = None
  /\ bot = None
  /\ market = None
  /\ trainer = None
  /\ disk = None
  /\ osc = IdleOsc
  /\ random_start \in BOOLEAN
  /\ current_step = 0
  /\ balance = initial_balance
  /\ max_balance = initial_balance
  /\ previous_balance = initial_balance
  /\ trades = <<>>
  /\ current_position = None
  /\ win_count = 0
  /\ loss_count = 0
  /\ reward = Frac(0, 1)
  /\ completed_episodes = 0
  /\ episode_steps = 0
  /\ trade_metrics = ZeroMetrics
  /\ ret = Raised("init", 0, "none")
  /\ prev_ret = Raised("init", 0, "none")

\* the fields of the instance become those of e
Becomes(e) ==
  /\ current_step' = e.current_step
  /\ balance' = e.balance
  /\ max_balance' = e.max_balance
  /\ previous_balance' = e.previous_balance
  /\ trades' = e.trades
  /\ current_position' = e.current_position
  /\ win_count' = e.win_count
  /\ loss_count' = e.loss_count
  /\ reward' = e.reward
  /\ episode_steps' = e.episode_steps
  /\ trade_metrics' = e.trade_metrics

\* a call record once a later call has been made: the outcome is kept,
\* the action as the caller wrote it is not
Earlier(r) == [r EXCEPT !.raw = r.action]

\* the integers a caller passes to step()
ActionInputs == {-1, 0, 1, 2, 3, 4}

\* the steps in which the explored policies trade; elsewhere they hold
InActiveWindow ==
  \/ episode_steps < ActiveHead
  \/ current_step >= data_length - 2 - ActiveTail

\* step(action)
Step ==
  \E a \in ActionInputs :
    /\ ProcessAction(a) # 0 => InActiveWindow
    /\ LET r == StepCall(Self, a)
       IN  /\ Becomes(r.self)
           /\ ret' = r.ret
    /\ prev_ret' = Earlier(ret)
    /\ UNCHANGED <<data_length, random_start, completed_episodes,
                   n_rows, columns, built>>
    /\ UNCHANGED shared_vars
    /\ UNCHANGED side_vars

\* reset(), returning normally
Reset ==
  /\ completed_episodes < MaxEpisodes
  /\ \E start \in (IF random_start THEN StartCursors(data_length) ELSE {0}) :
       LET r == ResetCall(Self, start)
       IN  /\ Becomes(r.self)
           /\ ret' = r.ret
  /\ completed_episodes' = completed_episodes + 1
  /\ prev_ret' = Earlier(ret)
  /\ UNCHANGED <<data_length, random_start, n_rows, columns, built>>
  /\ UNCHANGED shared_vars
  /\ UNCHANGED side_vars

\* reset() with random start and no start cursor to draw: randint raises
ResetRaises ==
  /\ completed_episodes < MaxEpisodes
  /\ random_start
  /\ StartCursors(data_length) = {}
  /\ ret' = Raised("reset", 0, "ValueError")
  /\ prev_ret' = Earlier(ret)
  /\ UNCHANGED <<data_length, random_start, current_step, balance, max_balance,
                 previous_balance, trades, current_position, win_count,
                 loss_count, reward, completed_episodes, episode_steps,
                 trade_metrics, n_rows, columns, built>>
  /\ UNCHANGED shared_vars
  /\ UNCHANGED side_vars

Next == Step \/ Reset \/ ResetRaises

Spec == Init /\ [][Next]_vars

(***************************************************************************)
(* The constructor as a step of its own: from a bar table to an            *)
(* environment or an exception.                                            *)
(***************************************************************************)
\* a bar table has been chosen, __init__ has not run
BuildInit ==
  /\ n_rows \in 0 .. MaxInputRows
  /\ columns \in SUBSET AllColumns
  /\ random_start \in BOOLEAN
  /\ built = "pending"
  /\ rng = 0
  /\ other = None
  /\ ref = None
  /\ ref_rng = 0
  /\ all_seeded = TRUE
  /\ printed = None
  /\ bot = None
  /\ market = None
  /\ trainer = None
  /\ disk = None
  /\ osc = IdleOsc
  /\ data_length = 0
  /\ current_step = 0
  /\ balance = 0
  /\ max_balance = 0
  /\ previous_balance = 0
  /\ trades = <<>>
  /\ current_position = None
  /\ win_count = 0
  /\ loss_count = 0
  /\ reward = Frac(0, 1)
  /\ completed_episodes = 0
  /\ episode_steps = 0
  /\ trade_metrics = ZeroMetrics
  /\ ret = Raised("init", 0, "none")
  /\ prev_ret = Raised("init", 0, "none")

\* __init__ returns an environment
Constructs ==
  /\ built = "pending"
  /\ Construct(columns, n_rows).built = "ok"
  /\ built' = "ok"
  /\ data_length' = Construct(columns, n_rows).data_length
  /\ current_step' = 0
  /\ balance' = initial_balance
  /\ max_balance' = initial_balance
  /\ previous_balance' = initial_balance
  /\ UNCHANGED <<random_start, trades, current_position, win_count,
                 loss_count, reward, completed_episodes, episode_steps,
                 trade_metrics, ret, prev_ret, n_rows, columns>>
  /\ UNCHANGED shared_vars
  /\ UNCHANGED side_vars

\* __init__ raises
ConstructRaises ==
  /\ built = "pending"
  /\ Construct(columns, n_rows).built # "ok"
  /\ built' = Construct(columns, n_rows).built
  /\ UNCHANGED <<data_length, random_start, current_step, balance,
                 max_balance, previous_balance, trades, current_position,
                 win_count, loss_count, reward, completed_episodes,
                 episode_steps, trade_metrics, ret, prev_ret, n_rows,
                 columns>>
  /\ UNCHANGED shared_vars
  /\ UNCHANGED side_vars

BuildNext == Constructs \/ ConstructRaises

SpecBuild == BuildInit /\ [][BuildNext]_vars

(***************************************************************************)
(* Two instances in one process.  reset() seeds and draws from np.random,  *)
(* the generator of the numpy module, which every instance of the process  *)
(* uses.  The generator is a state g: np.random.seed(s) sets it, a draw    *)
(* reads it and moves it on.  Next to the first instance the model keeps   *)
(* ref, the instance it would be had it made the same calls alone.         *)
(***************************************************************************)
\* the generator state np.random.seed(s) sets
SeedState(s) == s % RngStates

\* the generator state after a draw
NextState(g) == (g + 1) % RngStates

\* the value np.random.randint(0, high) draws in generator state g, high > 0
RandInt(g, high) == g % high

\* variant of Seeded: the seed passed to reset() is ignored
SeededNever(g, seed) == g

\* reset()'s "if seed is not None: np.random.seed(seed)", from state g
Seeded(g, seed) == IF seed = None THEN g ELSE SeedState(seed.value)

\* reset(seed) on the instance e with random-start flag rs, the generator
\* in state g: the instance, the call record and the generator afterwards
SeededReset(e, rs, g, seed) ==
  LET g1 == Seeded(g, seed)
      max_start == Max(0, e.data_length - MIN_BARS)
  IN  IF ~rs
      THEN LET r == ResetCall(e, 0)
           IN  [self |-> r.self, ret |-> r.ret, rng |-> g1]
      ELSE IF max_start <= 0
      THEN [self |-> e, ret |-> Raised("reset", 0, "ValueError"), rng |-> g1]
      ELSE LET r == ResetCall(e, RandInt(g1, max_start))
           IN  [self |-> r.self, ret |-> r.ret, rng |-> NextState(g1)]

\* the seed arguments a caller passes to reset(): none, or an integer
SeedInputs == {None} \cup {[value |-> v] : v \in 0 .. 1}

\* the actions the two callers pass to step()
SharedActions == {0, 1, 3}

\* a freshly constructed instance over data of len rows
Fresh(len) ==
  [data_length |-> len, current_step |-> 0,
   balance |-> initial_balance, max_balance |-> initial_balance,
   previous_balance |-> initial_balance, trades |-> <<>>,
   current_position |-> None, win_count |-> 0,
   loss_count |-> 0, reward |-> Frac(0, 1),
   episode_steps |-> 0, trade_metrics |-> ZeroMetrics]

\* two instances have been constructed over the same data
SharedInit ==
  /\ data_length = MIN_BARS + ExtraBars + 1
  /\ columns = AllColumns
  /\ n_rows \in {n \in 0 .. (MaxInputRows + 1) :
                   Construct(columns, n).data_length = data_length}
  /\ built = "ok"
  /\ random_start \in BOOLEAN
  /\ current_step = 0
  /\ balance = initial_balance
  /\ max_balance = initial_balance
  /\ previous_balance = initial_balance
  /\ trades = <<>>
  /\ current_position = None
  /\ win_count = 0
  /\ loss_count = 0
  /\ reward = Frac(0, 1)
  /\ completed_episodes = 0
  /\ episode_steps = 0
  /\ trade_metrics = ZeroMetrics
  /\ ret = Raised("init", 0, "none")
  /\ prev_ret = Raised("init", 0, "none")
  /\ rng \in 0 .. (RngStates - 1)
  /\ ref_rng = rng
  /\ other = [inst |-> Fresh(data_length), completed_episodes |-> 0]
  /\ ref = [self |-> Fresh(data_length), ret |-> Raised("init", 0, "none")]
  /\ all_seeded = TRUE
  /\ printed = None
  /\ bot = None
  /\ market = None
  /\ trainer = None
  /\ disk = None
  /\ osc = IdleOsc

\* the first instance: step(action); r.here is the call as it happens,
\* r.alone the same call in the run without the second instance
SharedStep ==
  /\ episode_steps < SharedSteps
  /\ \E a \in SharedActions :
       \E r \in {[run \in {"here", "alone"} |->
                   StepCall(IF run = "here" THEN Self ELSE ref.self, a)]} :
         /\ Becomes(r.here.self)
         /\ ret' = r.here.ret
         /\ ref' = [self |-> r.alone.self, ret |-> r.alone.ret]
  /\ prev_ret' = Earlier(ret)
  /\ UNCHANGED <<data_length, random_start, completed_episodes, n_rows,
                 columns, built, rng, other, ref_rng, all_seeded>>
  /\ UNCHANGED side_vars

\* the first instance: reset(seed), here and in the run alone
SharedReset ==
  /\ completed_episodes < MaxEpisodes
  /\ \E seed \in SeedInputs :
       \E r \in {[run \in {"here", "alone"} |->
                   SeededReset(IF run = "here" THEN Self ELSE ref.self,
                               random_start,
                               IF run = "here" THEN rng ELSE ref_rng,
                               seed)]} :
         /\ Becomes(r.here.self)
         /\ ret' = r.here.ret
         /\ rng' = r.here.rng
         /\ ref' = [self |-> r.alone.self, ret |-> r.alone.ret]
         /\ ref_rng' = r.alone.rng
         /\ all_seeded' = (all_seeded /\ seed # None)
  /\ completed_episodes' = completed_episodes + 1
  /\ prev_ret' = Earlier(ret)
  /\ UNCHANGED <<data_length, random_start, n_rows, columns, built, other>>
  /\ UNCHANGED side_vars

\* the calls of the second instance leave these alone
OtherCallFrame ==
  UNCHANGED <<data_length, random_start, current_step, balance, max_balance,
              previous_balance, trades, current_position, win_count,
              loss_count, reward, completed_episodes, episode_steps,
              trade_metrics, ret, prev_ret, n_rows, columns, built, ref,
              ref_rng, all_seeded, printed, osc, bot, market, trainer,
              disk>>

\* the second instance: step(action)
OtherStep ==
  /\ other.inst.episode_steps < OtherSteps
  /\ \E a \in SharedActions :
       \E r \in {StepCall(other.inst, a)} :
         other' = [other EXCEPT !.inst = r.self]
  /\ UNCHANGED rng
  /\ OtherCallFrame

\* the second instance: reset(seed)
OtherReset ==
  /\ other.completed_episodes < MaxEpisodes
  /\ \E seed \in SeedInputs :
       \E r \in {SeededReset(other.inst, random_start, rng, seed)} :
         /\ other' = [inst |-> r.self,
                      completed_episodes |-> other.completed_episodes + 1]
         /\ rng' = r.rng
  /\ OtherCallFrame

SharedNext == SharedStep \/ SharedReset \/ OtherStep \/ OtherReset

SpecShared == SharedInit /\ [][SharedNext]_vars

(***************************************************************************)
(* Properties.                                                             *)
(***************************************************************************)
\* this transition is a call of step() that returned
StepReturned ==
  /\ episode_steps' = episode_steps + 1
  /\ ret'.op = "step"
  /\ ret'.raised = "none"

\* this transition is a call of reset() that returned
ResetReturned ==
  /\ completed_episodes' = completed_episodes + 1
  /\ ret'.op = "reset"
  /\ ret'.raised = "none"

\* the last record of the trade history
LastTrade == trades[Len(trades)]

\* in a step: the balance after the action and before a forced liquidation
BalanceAtCheck ==
  IF ret'.action = 3 /\ current_position # None THEN balance' ELSE balance

\* in a step: a position is open when step() evaluates termination
OpenAtCheck ==
  \/ current_position # None /\ ret'.action # 3
  \/ current_position = None /\ ret'.action \in {1, 2}

\* C1: in every reachable state the position slot holds no position or one
\* position, and win_count + loss_count is the length of the trade history.
C1_OnePositionCountsMatch ==
  /\ \/ current_position = None
     \/ current_position.direction \in {1, -1}
  /\ win_count + loss_count = Len(trades)

\* C1 witness: after a reset, one trade was won and one lost, the second
\* of them opened by a Buy or Sell in the step that was the last call.
C1_Witness ==
  /\ completed_episodes = 1
  /\ ret.op = "step" /\ ret.raised = "none" /\ ret.action \in {1, 2}
  /\ win_count = 1
  /\ loss_count = 1
  /\ trades[2].exit_step = current_step

\* C2: every step() that returns has reward = (balance after - balance
\* before) / initial_balance; the reward is 0 when the step closes no
\* position, and a closed position contributes its pnl whatever its hold time.
C2_RewardIsBalanceChange ==
  [][StepReturned =>
       /\ ret'.reward = Frac(balance' - balance, initial_balance)
       /\ reward' = ret'.reward
       /\ Len(trades') = Len(trades) => ret'.reward.num = 0
       /\ Len(trades') > Len(trades) =>
            ret'.reward = Frac(trades'[Len(trades')].pnl, initial_balance)
    ]_vars

\* C2 witness: a step closed a position held for fewer than HOLD_SCALE bars
\* with a pnl other than 0 and returned the pnl as reward.
C2_Witness ==
  /\ ret.op = "step" /\ ret.raised = "none"
  /\ trades # <<>>
  /\ LastTrade.exit_step = current_step
  /\ LastTrade.hold_time \in 1 .. (HOLD_SCALE - 1)
  /\ LastTrade.pnl # 0
  /\ ret.reward = Frac(LastTrade.pnl, initial_balance)

\* two consecutive Close steps returned, the first of them closed a position
TwoCloses ==
  /\ ret.op = "step" /\ ret.raised = "none" /\ ret.action = 3
  /\ prev_ret.op = "step" /\ prev_ret.raised = "none" /\ prev_ret.action = 3
  /\ trades # <<>>
  /\ LastTrade.exit_step = current_step - 1

C4_CloseNothingNoChange ==
  current_position = None =>
    /\ ClosePosition(Self).raised = "none"
    /\ FracEq(ClosePosition(Self).val, Frac(-1, 10))
    /\ ClosePosition(Self).self = Self

\* C4 witness: a Close step was taken right after a Close step that left no
\* position, so its close operation found none; trades were recorded before
\* and the trade metrics are not the initial ones.
C4_Witness ==
  /\ ret.op = "step" /\ ret.raised = "none" /\ ret.action = 3
  /\ current_position = None
  /\ prev_ret.op = "step" /\ prev_ret.raised = "none" /\ prev_ret.action = 3
  /\ prev_ret.info.position = None
  /\ trades # <<>>
  /\ LastTrade.exit_step < current_step - 1
  /\ trade_metrics # ZeroMetrics

\* C5: with a position open the open operation changes nothing, for either
\* direction; a Buy or Sell step then keeps direction, entry price, lot size
\* and entry step of the position, records no trade and leaves balance and
\* reward at no change - unless the step terminates the episode, where the
\* unchanged position is liquidated.
C5_OpenWhenOpenNoOp ==
  [][/\ current_position # None =>
          \A d \in {1, 2} : \A sp \in {1, 2} :
             ExecuteTrade(Self, d, sp) =
               [self |-> Self, val |-> Frac(0, 1), raised |-> "none"]
     /\ (StepReturned /\ ret'.action \in {1, 2} /\ current_position # None) =>
          IF ret'.terminated
          THEN /\ Len(trades') = Len(trades) + 1
               /\ trades'[Len(trades')].direction = current_position.direction
               /\ trades'[Len(trades')].entry_price = current_position.entry_price
               /\ trades'[Len(trades')].lot_size = current_position.lot_size
               /\ trades'[Len(trades')].entry_step = current_position.entry_step
          ELSE /\ current_position' # None
               /\ current_position'.direction = current_position.direction
               /\ current_position'.entry_price = current_position.entry_price
               /\ current_position'.lot_size = current_position.lot_size
               /\ current_position'.entry_step = current_position.entry_step
               /\ trade_metrics' = trade_metrics
               /\ trades' = trades
               /\ balance' = balance
               /\ ret'.reward.num = 0
    ]_vars

\* C5 witness: a Sell step returned while a long position opened in an
\* earlier step is still open.
C5_Witness ==
  /\ ret.op = "step" /\ ret.raised = "none" /\ ret.action = 2
  /\ current_position # None
  /\ current_position.direction = 1
  /\ current_position.entry_step < current_step

\* C6: a step that closes a position appends exactly one trade record with
\* exit price = close at the cursor, pnl = (exit - entry) * lot * direction
\* and hold_time = exit_step - entry_step, adds the pnl to the balance,
\* increments exactly one of win_count and loss_count and clears the slot;
\* a Close step with a position open closes that position.
C6_ClosePnl ==
  [][StepReturned =>
       /\ (ret'.action = 3 /\ current_position # None) =>
             Len(trades') = Len(trades) + 1
       /\ Len(trades') # Len(trades) =>
            LET t == trades'[Len(trades')]
            IN  /\ Len(trades') = Len(trades) + 1
                /\ SubSeq(trades', 1, Len(trades)) = trades
                /\ t.exit_price = ClosePrice(data_length, current_step')
                /\ t.exit_step = current_step'
                /\ t.pnl = (t.exit_price - t.entry_price) * t.lot_size * t.direction
                /\ t.hold_time = t.exit_step - t.entry_step
                /\ balance' = balance + t.pnl
                /\ \/ win_count' = win_count + 1 /\ loss_count' = loss_count
                   \/ win_count' = win_count /\ loss_count' = loss_count + 1
                /\ current_position' = None
                /\ current_position # None =>
                     /\ t.direction = current_position.direction
                     /\ t.entry_price = current_position.entry_price
                     /\ t.lot_size = current_position.lot_size
                     /\ t.entry_step = current_position.entry_step
    ]_vars

\* C6 witness: a Close step closed a short position at a profit.
C6_Witness ==
  /\ ret.op = "step" /\ ret.raised = "none" /\ ret.action = 3
  /\ trades # <<>>
  /\ LastTrade.exit_step = current_step
  /\ LastTrade.direction = -1
  /\ LastTrade.pnl > 0
  /\ balance = initial_balance + LastTrade.pnl

\* C7: step() reports terminated exactly when, after the action and before
\* a forced liquidation, the cursor is at data_length - 1 or beyond, or the
\* balance is <= 0, or (max_balance - balance) / max_balance >= 0.5; a
\* drawdown of exactly 0.5 terminates.
C7_TerminatedIff ==
  [][StepReturned =>
       /\ ret'.terminated <=>
            \/ current_step' >= data_length - 1
            \/ BalanceAtCheck <= 0
            \/ 2 * (max_balance' - BalanceAtCheck) >= max_balance'
       /\ 2 * (max_balance' - BalanceAtCheck) = max_balance' => ret'.terminated
    ]_vars

\* C7 witness: a Close step before the end of the data realized a loss that
\* put the balance at exactly half of max_balance, and reported terminated;
\* the step before had not.
C7_Witness ==
  /\ ret.op = "step" /\ ret.raised = "none" /\ ret.action = 3
  /\ ret.terminated
  /\ prev_ret.op = "step" /\ ~prev_ret.terminated
  /\ current_step < data_length - 1
  /\ trades # <<>>
  /\ LastTrade.exit_step = current_step
  /\ balance > 0
  /\ 2 * (max_balance - balance) = max_balance

\* C8: after a step() that returns terminated no position is open; a
\* position open at the termination check is closed in that step, is the
\* last trade record, and its pnl is in the step's balance and reward.
C8_TerminatedIsFlat ==
  [][(StepReturned /\ ret'.terminated) =>
       /\ current_position' = None
       /\ ret'.info.position = None
       /\ OpenAtCheck =>
            /\ Len(trades') = Len(trades) + 1
            /\ trades'[Len(trades')].exit_step = current_step'
            /\ balance' = balance + trades'[Len(trades')].pnl
            /\ ret'.info.balance = balance'
            /\ ret'.reward = Frac(trades'[Len(trades')].pnl, initial_balance)
    ]_vars

\* C8 witness: a Buy step taken before the end of the data, with the
\* drawdown limit already reached, opened a position and the step
\* liquidated it.
C8_Witness ==
  /\ ret.op = "step" /\ ret.raised = "none" /\ ret.action = 1
  /\ ret.terminated /\ ~ret.truncated
  /\ current_position = None
  /\ trades # <<>>
  /\ LastTrade.exit_step = current_step
  /\ LastTrade.entry_step = current_step
  /\ LastTrade.pnl # 0

\* C9: after a reset() that returns, from whatever state, the trade history
\* is empty, no position is open, balance = max_balance = previous_balance =
\* initial_balance, the win/loss counters are 0 and the trade metrics zero.
C9_ResetClears ==
  [][ResetReturned =>
       /\ trades' = <<>>
       /\ current_position' = None
       /\ balance' = initial_balance
       /\ max_balance' = initial_balance
       /\ previous_balance' = initial_balance
       /\ win_count' = 0
       /\ loss_count' = 0
       /\ trade_metrics' = ZeroMetrics
       /\ ret'.info.balance = initial_balance
       /\ ret'.info.position = None
    ]_vars

\* C9 witness: reset() returned right after a step that left a position
\* open and a balance other than the initial one.
C9_Witness ==
  /\ ret.op = "reset" /\ ret.raised = "none"
  /\ prev_ret.op = "step" /\ prev_ret.raised = "none"
  /\ prev_ret.info.position # None
  /\ prev_ret.info.balance > initial_balance
  /\ prev_ret.info.trade_metrics.win_rate.num > 0
  /\ trades = <<>>

\* C10: truncated is true exactly when the cursor is at data_length - 1;
\* truncated implies terminated; terminated without truncated happens
\* exactly when balance <= 0 or drawdown >= 0.5 before the end of the data.
C10_TruncatedIff ==
  [][StepReturned =>
       /\ ret'.truncated <=> current_step' >= data_length - 1
       /\ ret'.truncated => ret'.terminated
       /\ (ret'.terminated /\ ~ret'.truncated) <=>
            /\ current_step' < data_length - 1
            /\ \/ BalanceAtCheck <= 0
               \/ 2 * (max_balance' - BalanceAtCheck) >= max_balance'
    ]_vars

\* C10 witness: a step before the end of the data reported terminated and
\* not truncated with the balance at or below 0.
C10_Witness ==
  /\ ret.op = "step" /\ ret.raised = "none"
  /\ ret.terminated /\ ~ret.truncated
  /\ balance <= 0
  /\ current_step < data_length - 1

\* the position this step opened: still open, or already liquidated by the
\* forced close of the same step
Opened == IF current_position # None THEN current_position ELSE LastTrade

\* this transition is a step() that returned and opened a position
StepOpened ==
  /\ StepReturned
  /\ current_position = None
  /\ ret'.action \in {1, 2}

\* this transition is a step() that returned and closed a position
StepClosed ==
  /\ StepReturned
  /\ Len(trades') = Len(trades) + 1

\* C11 as stated: once the environment is constructed no call of step()
\* raises an error, whatever the action and whatever calls came before.
C11_StepNeverFails == ret.op = "step" => ret.raised = "none"

\* C12 as stated: in every reachable state 0 <= current_step and
\* current_step < data_length - 1.
C12_CursorBelowLast == 0 <= current_step /\ current_step < data_length - 1

\* C12: in every reachable state 0 <= current_step <= data_length, and
\* after every reset() or step() that returned current_step is at most
\* data_length - 1, the index of the last row.
C12_CursorWithinData ==
  /\ 0 <= current_step /\ current_step <= data_length
  /\ ret.raised = "none" => current_step <= data_length - 1

\* C12 witness: a step() returned with the cursor on the last row.
C12_Witness ==
  /\ ret.op = "step" /\ ret.raised = "none"
  /\ ret.terminated /\ ret.truncated
  /\ current_step = data_length - 1

\* every lot size held or recorded is within [MIN_LOTS, MAX_LOTS]
LotsInRange ==
  /\ current_position # None =>
       MIN_LOTS <= current_position.lot_size
       /\ current_position.lot_size <= MAX_LOTS
  /\ \A i \in 1 .. Len(trades) :
       MIN_LOTS <= trades[i].lot_size /\ trades[i].lot_size <= MAX_LOTS

\* in this transition a position stays open, or is closed, with the lot
\* size it had
LotSizeKept ==
  /\ (current_position # None /\ current_position' # None) =>
       current_position'.lot_size = current_position.lot_size
  /\ (current_position # None /\ StepClosed) =>
       LastTrade'.lot_size = current_position.lot_size

\* the lot size of a position opened in this transition is the rounded
\* quotient balance / balance_per_lot, clamped to [MIN_LOTS, MAX_LOTS]
LotSizeAtOpen ==
  StepOpened =>
    Opened'.lot_size =
      Max(MIN_LOTS, Min(MAX_LOTS, Round(balance * 100, BALANCE_PER_LOT)))

C14_EntryAfterAdvance ==
  [][/\ StepOpened =>
          /\ current_step' = current_step + 1
          /\ Opened'.entry_step = current_step + 1
          /\ Opened'.entry_price =
               ClosePrice(data_length, current_step + 1)
               + (IF ret'.action = 1 THEN 1 ELSE -1)
                 * (SpreadPoints(data_length, current_step) \div POINTS_PER_UNIT)
     /\ StepClosed =>
          /\ LastTrade'.exit_step = current_step'
          /\ LastTrade'.exit_price = ClosePrice(data_length, current_step')
    ]_vars

\* C14 witness: a Sell step has just opened a short below the close of the
\* bar the cursor moved to, and the position is still open.
C14_Witness ==
  /\ ret.op = "step" /\ ret.raised = "none" /\ ret.action = 2
  /\ current_position # None
  /\ current_position.direction = -1
  /\ current_position.entry_step = current_step
  /\ current_position.entry_price < ClosePrice(data_length, current_step)

\* C17 as stated: a reset() with random start leaves the cursor on one of
\* the start cursors it can draw, which are exactly 0 .. data_length - 100;
\* a reset() without random start leaves the cursor at 0.
C17_StartCursorsInclusive ==
  ret.op = "reset" =>
    /\ ret.raised = "none"
    /\ IF random_start
       THEN /\ StartCursors(data_length) = 0 .. (data_length - MIN_BARS)
            /\ current_step \in 0 .. (data_length - MIN_BARS)
       ELSE current_step = 0

\* the outcomes x and y of two step() calls agree: the same instance, the
\* same exception, the same returned values
SameOutcome(x, y) ==
  /\ x.self = y.self
  /\ Earlier(x.ret) = Earlier(y.ret)

\* r is the non-negative remainder of a modulo 4
IsRemainder(r, a) ==
  /\ r \in 0 .. 3
  /\ \E k \in -2 .. 2 : a = 4 * k + r

\* C20: in every reachable state, for every integer a, step(a) has the
\* outcome of step(r) for the remainder r of a modulo 4 with 0 <= r <= 3:
\* the same fields afterwards, the same returned values and the same
\* exception if any; the action a step carried out is that remainder.
C20_ActionModFour ==
  /\ \A a \in ActionInputs : \E r \in 0 .. 3 :
        /\ IsRemainder(r, a)
        /\ SameOutcome(StepCall(Self, a), StepCall(Self, r))
  /\ ret.op = "step" => IsRemainder(ret.action, ret.raw)

\* C20 witness: step(-1) returned and, as Close, closed the open position
\* without ending the episode.
C20_Witness ==
  /\ ret.op = "step" /\ ret.raised = "none"
  /\ ret.raw = -1 /\ ret.action = 3
  /\ ~ret.terminated
  /\ trades # <<>>
  /\ LastTrade.exit_step = current_step
  /\ current_position = None

\* C15 as stated: for a table with the required columns, construction
\* succeeds whenever the table has at least 120 rows, and it raises the
\* insufficient-data error exactly when fewer than 100 rows are kept.
C15_BuildsFrom120Rows ==
  (built # "pending" /\ RequiredColumns \subseteq columns) =>
    /\ n_rows >= 120 => built = "ok"
    /\ built = "InsufficientData" <=> Len(ValidPositions(n_rows)) < MIN_BARS

\* C16: construction raises the configuration error exactly when one of
\* open, high, low, close, spread is missing, however few rows the table
\* has; a table that lacks only volume is constructed exactly when the same
\* table with volume is.
C16_ConfigurationErrorIff ==
  built # "pending" =>
    /\ built = "ConfigurationError" <=>
         \E c \in {"open", "high", "low", "close", "spread"} : c \notin columns
    /\ columns = AllColumns \ {"volume"} =>
         built = Construct(AllColumns, n_rows).built

\* C16 witness: a table too short to be preprocessed and without a spread
\* column was rejected with the configuration error.
C16_Witness ==
  /\ built = "ConfigurationError"
  /\ n_rows < MIN_BARS
  /\ columns = AllColumns \ {"spread"}

\* the first instance is, and its last call returned, what they would be
\* had the instance made its calls alone
SameAsAlone == Self = ref.self /\ ret = ref.ret

\* C18: two runs of an instance over the same data, given the same seed in
\* every reset() and the same actions, have the same cursor, account state
\* and returned values after every call, whatever state the random
\* generator was in before; without random start this holds for resets
\* without a seed as well.
C18_SameSeedSameRun == (all_seeded \/ ~random_start) => SameAsAlone

\* C18 witness: with random start, the second instance has drawn a start
\* cursor, the first one was reset with a seed to a start cursor other than
\* 0 and has taken a step from there.
C18_Witness ==
  /\ random_start /\ all_seeded
  /\ completed_episodes = 1
  /\ other.completed_episodes = 1
  /\ ret.op = "step" /\ ret.raised = "none"
  /\ episode_steps = 1
  /\ current_step = 2

\* C19 as stated: the calls of a second instance, interleaved with those of
\* the first, change no cursor, account value or returned value of the
\* first.
C19_NoInterference == SameAsAlone

\* the unrealized pnl of the open position at the close of the cursor's bar
UnrealizedNow ==
  (IF current_position.direction = 1
   THEN ClosePrice(data_length, current_step) - current_position.entry_price
   ELSE current_position.entry_price - ClosePrice(data_length, current_step))
  * current_position.lot_size

\* the observation last returned matches the cursor and the position slot:
\* 7 elements, the features of the cursor's row, then 0 when flat and
\* otherwise the unrealized pnl over initial_balance, clipped to [-1, 1]
ObservationOfState ==
  /\ ret.obs.width = 7
  /\ ret.obs.row = current_step
  /\ ret.obs.unrealized_pnl =
       IF current_position = None THEN Frac(0, 1)
       ELSE IF UnrealizedNow > initial_balance
       THEN Frac(initial_balance, initial_balance)
       ELSE IF UnrealizedNow < -initial_balance
       THEN Frac(-initial_balance, initial_balance)
       ELSE Frac(UnrealizedNow, initial_balance)

\* C21: the observation a step() or reset() returns has 7 elements, the 6
\* features of the row at the cursor after the call and the unrealized pnl
\* over initial_balance clipped to [-1, 1]; the last element is exactly 0
\* when no position is open, so in every observation of reset() and of a
\* terminating step.
C21_ObservationShape ==
  [][/\ (StepReturned \/ ResetReturned) => ObservationOfState'
     /\ (ResetReturned \/ (StepReturned /\ ret'.terminated)) =>
          /\ current_position' = None
          /\ ret'.obs.unrealized_pnl = Frac(0, 1)
    ]_vars

\* C21 witness: a step returned with a position open whose unrealized loss
\* exceeds the initial balance; the last element of the observation is -1.
C21_Witness ==
  /\ ret.op = "step" /\ ret.raised = "none"
  /\ current_position # None
  /\ UnrealizedNow < -initial_balance
  /\ ret.obs.unrealized_pnl = Frac(-initial_balance, initial_balance)
  /\ ret.obs.row = current_step

\* this transition is a call of step(), returning or raising
StepTaken ==
  /\ completed_episodes' = completed_episodes
  /\ ret'.op = "step"

\* C23: every step() of an episode leaves max_balance at or above its value
\* before the step, and max_balance is never below initial_balance.
C23_PeakNeverFalls ==
  [][/\ StepTaken => max_balance' >= max_balance
     /\ max_balance' >= initial_balance
    ]_vars

\* C23 witness: a step raised max_balance above the initial balance while
\* the balance, after a losing trade, is below it.
C23_Witness ==
  /\ ret.op = "step" /\ ret.raised = "none"
  /\ max_balance > initial_balance
  /\ balance < max_balance
  /\ Len(trades) >= 2
  /\ LastTrade.pnl < 0

\* C24 as stated: after every reset() and every step(), max_balance >=
\* balance, and the drawdown step() reports is not negative.
C24_PeakAboveBalance ==
  /\ max_balance >= balance
  /\ (ret.op = "step" /\ ret.raised = "none") => ret.info.drawdown.num >= 0

\* the number of trades of ts with pnl > 0
Winners(ts) == Cardinality({i \in 1 .. Len(ts) : ts[i].pnl > 0})

\* C25: in every reachable state win_rate is the number of trades with
\* pnl > 0 over the number of trades, 0 when there are none, which is
\* win_count / (win_count + loss_count); current_direction is the direction
\* of the open position, 0 when there is none.
C25_MetricsFromLedger ==
  /\ trades = <<>> => trade_metrics.win_rate = Frac(0, 1)
  /\ trades # <<>> =>
       /\ FracEq(trade_metrics.win_rate, Frac(Winners(trades), Len(trades)))
       /\ FracEq(trade_metrics.win_rate,
                 Frac(win_count, win_count + loss_count))
  /\ trade_metrics.current_direction =
       IF current_position = None THEN 0 ELSE current_position.direction
  /\ trade_metrics.current_direction \in {-1, 0, 1}

\* C25 witness: a winning trade is recorded and a short position has been
\* opened since: win_rate is 1 and current_direction is -1.
C25_Witness ==
  /\ Len(trades) = 1
  /\ Winners(trades) = 1
  /\ FracEq(trade_metrics.win_rate, Frac(1, 1))
  /\ current_position # None
  /\ current_position.entry_step > LastTrade.exit_step
  /\ current_position.direction = -1
  /\ trade_metrics.current_direction = -1

\* C28: within an episode a step() leaves the trade history as it is or
\* appends one record to it; the records are in the order of their exit
\* steps and each trade is entered no earlier than the one before it was
\* closed.
C28_HistoryGrowsOnly ==
  [][/\ StepTaken =>
          \/ trades' = trades
          \/ /\ Len(trades') = Len(trades) + 1
             /\ SubSeq(trades', 1, Len(trades)) = trades
     /\ \A i \in 1 .. (Len(trades') - 1) :
          /\ trades'[i].exit_step <= trades'[i + 1].exit_step
          /\ trades'[i + 1].entry_step >= trades'[i].exit_step
    ]_vars

\* C28 witness: a step appended a second record to the history; the second
\* trade was entered after the first was closed.
C28_Witness ==
  /\ ret.op = "step" /\ ret.raised = "none"
  /\ Len(trades) = 2
  /\ trades[2].exit_step = current_step
  /\ trades[2].entry_step > trades[1].exit_step
  /\ trades[1].exit_step > trades[1].entry_step

\* C29 as stated: the info map of a step() has total_pnl = balance -
\* initial_balance and drawdown = 100 * (max_balance - balance) /
\* max_balance for the balance it reports, also when the step closed the
\* position by force.
C29_InfoConsistent ==
  (ret.op = "step" /\ ret.raised = "none") =>
    /\ ret.info.balance = balance
    /\ ret.info.total_pnl = ret.info.balance - initial_balance
    /\ ret.info.drawdown.num % 100 = 0
    /\ FracEq(Frac(ret.info.drawdown.num \div 100, ret.info.drawdown.den),
              Frac(max_balance - ret.info.balance, max_balance))

\* C30: in every reachable state balance = initial_balance + the sum of
\* the pnl of the records of the trade history; a step() changes the
\* balance only if it closes a position, by the pnl of the record it adds.
C30_BalanceIsLedgerSum ==
  [][/\ balance' = initial_balance + SumPnl(trades')
     /\ (StepTaken /\ ~StepClosed) => balance' = balance
     /\ StepClosed => balance' = balance + LastTrade'.pnl
    ]_vars

\* C30 witness: two Hold steps in a row returned with a position open and
\* in loss; no trade is recorded and the balance is the initial balance.
C30_Witness ==
  /\ ret.op = "step" /\ ret.raised = "none" /\ ret.action = 0
  /\ prev_ret.op = "step" /\ prev_ret.action = 0
  /\ current_position # None
  /\ UnrealizedNow < 0
  /\ trades = <<>>
  /\ balance = initial_balance

\* C26 as stated: of a table whose values are all defined the constructor
\* drops the first 20 rows and nothing else: the first row kept is input
\* row 20 and data_length is the number of input rows less 20.
C26_DropsFirstTwenty ==
  built = "ok" =>
    /\ ValidPositions(n_rows)[1] = 20
    /\ data_length = n_rows - 20

(***************************************************************************)
(* The momentum oscillator (RSI) of _preprocess_data, one window at a      *)
(* time.  gain and loss are the 14-row rolling means of the up-moves and   *)
(* of the down-moves of the close; a window enters by the two sums.        *)
(***************************************************************************)
\* the largest sum of up-moves, and of down-moves, of a window explored
MaxMove == 9

\* rolling(window=14).mean() of a window whose values sum to total
RollingMean(total) == Frac(total, RSI_WINDOW)

\* rs = zeros; rs[loss != 0] = gain / loss
Rs(gain, loss) ==
  IF loss.num # 0
  THEN Frac(gain.num * loss.den, gain.den * loss.num)
  ELSE Frac(0, 1)

\* rsi = 100 - (100 / (1 + rs))
Rsi(rs) ==
  LET one_plus_rs == Frac(rs.den + rs.num, rs.den)
      quotient == Frac(100 * one_plus_rs.den, one_plus_rs.num)
  IN  Frac(100 * quotient.den - quotient.num, quotient.den)

\* features_df['rsi'] = rsi / 50 - 1
RsiFeature(rsi) == Frac(rsi.num - 50 * rsi.den, 50 * rsi.den)

\* a window has been chosen, its oscillator value is not computed yet
RsiInit ==
  /\ osc \in {[IdleOsc EXCEPT !.gain_sum = g, !.loss_sum = l] :
                g \in 0 .. MaxMove, l \in 0 .. MaxMove}
  /\ printed = None
  /\ bot = None
  /\ market = None
  /\ trainer = None
  /\ disk = None
  /\ n_rows = MaxInputRows
  /\ columns = AllColumns
  /\ random_start = FALSE
  /\ built = "pending"
  /\ rng = 0
  /\ other = None
  /\ ref = None
  /\ ref_rng = 0
  /\ all_seeded = TRUE
  /\ data_length = 0
  /\ current_step = 0
  /\ balance = 0
  /\ max_balance = 0
  /\ previous_balance = 0
  /\ trades = <<>>
  /\ current_position = None
  /\ win_count = 0
  /\ loss_count = 0
  /\ reward = Frac(0, 1)
  /\ completed_episodes = 0
  /\ episode_steps = 0
  /\ trade_metrics = ZeroMetrics
  /\ ret = Raised("init", 0, "none")
  /\ prev_ret = Raised("init", 0, "none")

\* the oscillator value and the feature of the window
ComputeRsi ==
  /\ osc.rs = None
  /\ LET gain == RollingMean(osc.gain_sum)
         loss == RollingMean(osc.loss_sum)
         rs == Rs(gain, loss)
         rsi == Rsi(rs)
     IN  osc' = [osc EXCEPT !.rs = rs, !.rsi = rsi,
                            !.feature = RsiFeature(rsi)]
  /\ UNCHANGED <<data_length, random_start, current_step, balance,
                 max_balance, previous_balance, trades, current_position,
                 win_count, loss_count, reward, completed_episodes,
                 episode_steps, trade_metrics, ret, prev_ret, n_rows,
                 columns, built, printed, bot, market, trainer, disk>>
  /\ UNCHANGED shared_vars

RsiNext == ComputeRsi

SpecRsi == RsiInit /\ [][RsiNext]_vars

\* C27 as stated: where the 14-row average loss of a window is exactly
\* zero the ratio rs is set to zero without a division, the oscillator is
\* 100 and the normalized feature is +1.
C27_ZeroLossIsHundred ==
  (osc.rs # None /\ RollingMean(osc.loss_sum).num = 0) =>
    /\ FracEq(osc.rs, Frac(0, 1))
    /\ FracEq(osc.rsi, Frac(100, 1))
    /\ FracEq(osc.feature, Frac(1, 1))

(***************************************************************************)
(* render(): the report.  It is modelled by the values it prints; the      *)
(* instance it returns is the instance it was called on.                   *)
(***************************************************************************)
\* the steps of an episode explored around a report
ReportSteps == 3

\* the values render() prints for instance e in episode number episode
Report(e, episode) ==
  [episode |-> episode,
   step |-> e.episode_steps,
   balance |-> e.balance,
   position |-> IF e.current_position = None THEN "None"
                ELSE IF e.current_position.direction = 1 THEN "Long"
                ELSE "Short",
   unrealized_pnl |->
     IF e.current_position = None THEN None
     ELSE LET close == ClosePrice(e.data_length, e.current_step)
              entry_price == e.current_position.entry_price
          IN  [value |-> (IF e.current_position.direction = 1
                          THEN close - entry_price
                          ELSE entry_price - close)
                         * e.current_position.lot_size],
   hold_time |-> IF e.current_position = None THEN None
                 ELSE [value |-> e.current_step
                                 - e.current_position.entry_step],
   total_trades |-> Len(e.trades),
   total_return |-> IF e.trades = <<>> THEN None
                    ELSE Frac((e.balance - initial_balance) * 100,
                              initial_balance),
   drawdown |-> IF e.trades = <<>> THEN None
                ELSE Frac((e.max_balance - e.balance) * 100, e.max_balance)]

\* variant of RenderCall: the report brings the peak balance up to date
\* before it prints the drawdown
RenderCallRefreshingPeak(e, episode) ==
  IF e.current_position # None /\ e.current_step >= e.data_length
  THEN [self |-> e, printed |-> None, raised |-> "IndexError"]
  ELSE LET refreshed == [e EXCEPT !.max_balance = PeakBalance(e)]
       IN  [self |-> refreshed, printed |-> Report(refreshed, episode),
            raised |-> "none"]

\* render()
RenderCall(e, episode) ==
  IF e.current_position # None /\ e.current_step >= e.data_length
  THEN [self |-> e, printed |-> None, raised |-> "IndexError"]
  ELSE [self |-> e, printed |-> Report(e, episode), raised |-> "none"]

\* render(), returning normally
Render ==
  /\ \E r \in {RenderCall(Self, completed_episodes)} :
       /\ r.raised = "none"
       /\ Becomes(r.self)
       /\ printed' = r.printed
  /\ UNCHANGED <<data_length, random_start, completed_episodes, n_rows,
                 columns, built, ret, prev_ret, osc, bot, market,
                 trainer, disk>>
  /\ UNCHANGED shared_vars

\* step(action), within the steps explored around a report
ReportStep ==
  /\ episode_steps < ReportSteps
  /\ Step

ReportNext == ReportStep \/ Reset \/ ResetRaises \/ Render

SpecReport == Init /\ [][ReportNext]_vars

\* a render() returned in this transition
RenderReturned == printed' # printed

\* the episode has ended: the last step() returned terminated = TRUE
Terminated == ret.op = "step" /\ ret.raised = "none" /\ ret.terminated

\* C22: a render() leaves the cursor, the balance, the peak balance, the
\* previous balance, the position, the trade history, the counters and the
\* metrics as they were, so every step(action) and every reset() after it
\* yields what it would have yielded without the report.
C22_RenderReadOnly ==
  [][RenderReturned =>
       \A before \in {Self}, after \in {Self'} :
         /\ after = before
         /\ completed_episodes' = completed_episodes
         /\ \A a \in ActionInputs : StepCall(after, a) = StepCall(before, a)
         /\ \A start \in StartCursors(data_length) :
              ResetCall(after, start) = ResetCall(before, start)
    ]_vars

\* C22 witness: a report was written after the episode had terminated on a
\* closed trade, and it is the report of the state the instance is in.
C22_Witness ==
  /\ printed # None
  /\ printed = Report(Self, completed_episodes)
  /\ Terminated
  /\ trades # <<>>

\* the cursor the episode started from
StartCursor == current_step - episode_steps

\* C31: every step() of an episode that has not terminated returns and
\* moves the cursor forward by one row, and the step() that brings an
\* episode started at cursor s to data_length - 1 - s steps returns
\* terminated = TRUE: the loop that steps until terminated or truncated
\* makes at most that many steps.
C31_EpisodeTerminates ==
  [][StepTaken =>
       /\ current_step < data_length - 1 =>
            /\ ret'.raised = "none"
            /\ current_step' = current_step + 1
            /\ episode_steps' = episode_steps + 1
       /\ (ret'.raised = "none"
           /\ episode_steps' >= data_length - 1 - StartCursor) =>
            ret'.terminated \/ ret'.truncated
       /\ (ret'.raised = "none" /\ current_step' >= data_length - 1) =>
            ret'.terminated
    ]_vars

\* C31 witness: an episode started by reset() ran to the end of the data
\* with money left and the drawdown below the limit; its last step, the
\* one numbered data_length - 1 - s, returned terminated = TRUE.
C31_Witness ==
  /\ Terminated
  /\ completed_episodes = 1
  /\ episode_steps = data_length - 1 - StartCursor
  /\ balance > 0
  /\ ~FracGeq(Drawdown(Self), MAX_DRAWDOWN)

C33_ResetSucceeds ==
  (built = "ok" /\ ret.op = "reset") =>
    /\ ret.raised = "none"
    /\ ret.obs.width = Len(FeatureColumns) + 1
    /\ current_step \in 0 .. (data_length - 1)
    /\ ret.obs.row = current_step

\* C34 as stated: for a position opened by a step taken at cursor c, the
\* close and the spread that make the entry price are both those of bar
\* c + 1, the bar the cursor is on after the advance.
C34_EntrySpreadOfEntryBar ==
  [][StepOpened =>
       Opened'.entry_price =
         ClosePrice(data_length, current_step')
         + Opened'.direction
           * (SpreadPoints(data_length, current_step') \div POINTS_PER_UNIT)
    ]_vars

\* C35: every trade record has hold_time = exit_step - entry_step >= 0; a
\* record with hold_time 0 is made only by a step that opened the position
\* and returned terminated = TRUE, and a position closed by the Close
\* action has hold_time >= 1.
C35_HoldTime ==
  [][/\ \A i \in 1 .. Len(trades') :
          /\ trades'[i].hold_time = trades'[i].exit_step - trades'[i].entry_step
          /\ trades'[i].hold_time >= 0
     /\ (StepClosed /\ LastTrade'.hold_time = 0) =>
          /\ current_position = None
          /\ ret'.action \in {1, 2}
          /\ ret'.terminated
     /\ (StepClosed /\ ret'.action = 3 /\ current_position # None) =>
          LastTrade'.hold_time >= 1
    ]_vars

\* C35 witness: the last step opened a position on the last row and the
\* forced close of the same step recorded it with hold_time 0.
C35_Witness ==
  /\ Terminated
  /\ ret.action \in {1, 2}
  /\ Len(trades) >= 1
  /\ LastTrade.hold_time = 0
  /\ LastTrade.entry_step = current_step

(***************************************************************************)
(* The live bot of bot.py.  A TradingBot is the record of its fields with  *)
(* the position of run(); the broker is the time of its latest bar, in     *)
(* minutes.  data_fetcher, model and trade_executor are known by their     *)
(* calls only: a call returns a value, returns None or raises.             *)
(***************************************************************************)
\* the new bars that arrive while the bot runs
MaxBars == 2

\* the largest distance between two consecutive bars, in timeframes
MaxGap == 4

\* MT5_TIMEFRAME_MINUTES, the bar timeframe of the configuration
Timeframes == {1, 5}

\* abs()
Abs(x) == IF x < 0 THEN -x ELSE x

\* TradingBot.__init__; signalled: the process has been sent SIGINT or
\* SIGTERM while the handlers were installed
NewBot ==
  [running |-> TRUE, mt5 |-> "none", last_bar_index |-> None,
   lstm_states |-> None, model_states |-> None, handlers |-> FALSE,
   pc |-> "start", cleanups |-> 0, detected |-> <<>>, predictions |-> <<>>,
   executions |-> <<>>, cycle |-> None, signalled |-> FALSE]

\* a call that raises an exception instead of returning
Raising == [raised |-> "Exception"]

\* a bar index, a time in minutes
BarIndex(t) == [time |-> t]

\* what process_trading_cycle did: the bar it saw, the bar processed
\* before it, the states before it and those in place at the prediction
CycleRecord(outcome, bar, previous, before, at_predict) ==
  [outcome |-> outcome, bar |-> bar, previous |-> previous,
   states_before |-> before, states_at_predict |-> at_predict]

\* variant of Detected: the bar is not marked as processed
DetectedUnmarked(b, index) == [b EXCEPT !.detected = Append(@, index.time)]

\* "New bar detected": self.last_bar_index = current_bar.index[-1]
Detected(b, index) ==
  [b EXCEPT !.last_bar_index = index, !.detected = Append(@, index.time)]

\* the gap test of process_trading_cycle: time_diff > 2 x the timeframe
SignificantGap(last_bar_index, index, timeframe) ==
  LET expected_time == last_bar_index.time + timeframe
      time_diff == Abs((index.time - expected_time) * 60)
  IN  time_diff > timeframe * 2 * 60

\* process_trading_cycle() of the bot b: current_bar is what
\* fetch_current_bar() gave (a bar index, None or Raising), data what
\* fetch_data() gave, predicted and executed how predict_single() and
\* execute_trade() ended
ProcessTradingCycle(b, timeframe, current_bar, data, predicted, executed) ==
  IF current_bar = Raising
  THEN [b EXCEPT !.cycle = CycleRecord("error", None, b.last_bar_index,
                                       b.lstm_states, None)]
  ELSE IF current_bar = None
  THEN [b EXCEPT !.cycle = CycleRecord("no bar", None, b.last_bar_index,
                                       b.lstm_states, None)]
  ELSE IF b.last_bar_index = current_bar
  THEN [b EXCEPT !.cycle = CycleRecord("same bar", current_bar,
                                       b.last_bar_index, b.lstm_states, None)]
  ELSE
    LET b1 == Detected(b, current_bar)
        rec(outcome, at_predict) ==
          CycleRecord(outcome, current_bar, b.last_bar_index, b.lstm_states,
                      at_predict)
    IN
    IF data = "raises" THEN [b1 EXCEPT !.cycle = rec("error", None)]
    ELSE IF data = "none" THEN [b1 EXCEPT !.cycle = rec("no data", None)]
    ELSE
      LET b2 == IF b1.last_bar_index # None
                   /\ SignificantGap(b1.last_bar_index, current_bar, timeframe)
                THEN [b1 EXCEPT !.lstm_states = None]
                ELSE b1
      IN
      IF predicted = "raises"
      THEN [b2 EXCEPT !.cycle = rec("error", [value |-> b2.lstm_states])]
      ELSE
        LET b3 == [b2 EXCEPT !.model_states = [after |-> current_bar.time],
                             !.lstm_states = [after |-> current_bar.time],
                             !.predictions = Append(@, current_bar.time)]
        IN
        IF executed = "raises"
        THEN [b3 EXCEPT !.cycle = rec("error", [value |-> b2.lstm_states])]
        ELSE [b3 EXCEPT !.executions = Append(@, current_bar.time),
                        !.cycle = rec("traded", [value |-> b2.lstm_states])]

\* variant of HandleShutdownCall: the signal is logged and nothing else
HandleShutdownLogged(b, signum) == b

\* handle_shutdown(signum, frame)
HandleShutdownCall(b, signum) == [b EXCEPT !.running = FALSE]

\* cleanup()
CleanupCall(b) ==
  [b EXCEPT !.mt5 = IF @ # "none" THEN "disconnected" ELSE @,
            !.model_states = None,
            !.lstm_states = None,
            !.cleanups = @ + 1]

\* the environment variables where no environment has been constructed
NoEnvironment ==
  /\ n_rows = 0
  /\ columns = {}
  /\ random_start = FALSE
  /\ built = "pending"
  /\ rng = 0
  /\ other = None
  /\ ref = None
  /\ ref_rng = 0
  /\ all_seeded = TRUE
  /\ data_length = 0
  /\ current_step = 0
  /\ balance = 0
  /\ max_balance = 0
  /\ previous_balance = 0
  /\ trades = <<>>
  /\ current_position = None
  /\ win_count = 0
  /\ loss_count = 0
  /\ reward = Frac(0, 1)
  /\ completed_episodes = 0
  /\ episode_steps = 0
  /\ trade_metrics = ZeroMetrics
  /\ ret = Raised("init", 0, "none")
  /\ prev_ret = Raised("init", 0, "none")
  /\ printed = None
  /\ osc = IdleOsc

\* the variables of the environment, which the bot and the trainer of this
\* model do not touch
env_vars ==
  <<data_length, random_start, current_step, balance, max_balance,
    previous_balance, trades, current_position, win_count, loss_count,
    reward, completed_episodes, episode_steps, trade_metrics, ret, prev_ret,
    n_rows, columns, built, rng, other, ref, ref_rng, all_seeded, printed,
    osc>>

\* a TradingBot has been constructed, run() has not been called
BotInit ==
  /\ bot = NewBot
  /\ market \in {[latest |-> 0, arrived |-> 0, timeframe |-> tf] :
                   tf \in Timeframes}
  /\ trainer = None
  /\ disk = None
  /\ NoEnvironment

\* the bot's calls leave these alone
BotFrame == UNCHANGED <<env_vars, trainer, disk>>

\* run(): initialize() and, if it succeeded, setup_signal_handlers()
Initialize ==
  /\ bot.pc = "start"
  /\ \E ok \in BOOLEAN :
       bot' = IF ok
              THEN [bot EXCEPT !.mt5 = "connected",
                               !.model_states = None,
                               !.last_bar_index = BarIndex(market.latest),
                               !.handlers = TRUE,
                               !.pc = "test"]
              ELSE [bot EXCEPT !.pc = "returned"]
  /\ UNCHANGED market
  /\ BotFrame

\* run(): while self.running
LoopTest ==
  /\ bot.pc = "test"
  /\ bot' = [bot EXCEPT !.pc = IF bot.running THEN "cycle" ELSE "cleanup"]
  /\ UNCHANGED market
  /\ BotFrame

\* run(): self.process_trading_cycle()
Cycle ==
  /\ bot.pc = "cycle"
  /\ \E current_bar \in {BarIndex(market.latest), None, Raising},
        data \in {"data", "none", "raises"},
        predicted \in {"ok", "raises"},
        executed \in {"ok", "raises"} :
       bot' = [ProcessTradingCycle(bot, market.timeframe, current_bar, data,
                                   predicted, executed)
                 EXCEPT !.pc = "sleep"]
  /\ UNCHANGED market
  /\ BotFrame

\* run(): time.sleep(1) returns
Sleep ==
  /\ bot.pc = "sleep"
  /\ bot' = [bot EXCEPT !.pc = "test"]
  /\ UNCHANGED market
  /\ BotFrame

\* run(): an unexpected exception ends the loop; it is logged
LoopRaises ==
  /\ bot.pc = "sleep"
  /\ bot' = [bot EXCEPT !.pc = "cleanup"]
  /\ UNCHANGED market
  /\ BotFrame

\* run(): finally: self.cleanup(), then run() returns
Cleanup ==
  /\ bot.pc = "cleanup"
  /\ bot' = [CleanupCall(bot) EXCEPT !.pc = "returned"]
  /\ UNCHANGED market
  /\ BotFrame

\* SIGINT (2) or SIGTERM (15) is delivered while the handlers are installed
HandleShutdown ==
  /\ bot.handlers
  /\ bot.pc # "returned"
  /\ \E signum \in {2, 15} :
       bot' = [HandleShutdownCall(bot, signum)
                 EXCEPT !.signalled = TRUE]
  /\ UNCHANGED market
  /\ BotFrame

\* the broker closes a bar: the latest bar is 1 .. MaxGap timeframes later
NewBar ==
  /\ market.arrived < MaxBars
  /\ \E gap \in 1 .. MaxGap :
       market' = [market EXCEPT !.latest = @ + gap * market.timeframe,
                                !.arrived = @ + 1]
  /\ UNCHANGED bot
  /\ BotFrame

\* the steps of run()
BotRun == Initialize \/ LoopTest \/ Cycle \/ Sleep \/ Cleanup

BotNext == BotRun \/ LoopRaises \/ HandleShutdown \/ NewBar

SpecBot == BotInit /\ [][BotNext]_vars

\* run() goes on executing: each of its steps that can be taken is taken
SpecBotLive == SpecBot /\ WF_vars(BotRun)

\* this transition is a call of process_trading_cycle() that returned
CycleDone == bot.pc = "cycle" /\ bot'.pc = "sleep"

\* no value occurs twice in the sequence s
NoDuplicates(s) == \A i, j \in 1 .. Len(s) : s[i] = s[j] => i = j

\* C36 as stated: in a cycle that reaches the prediction, if the new bar
\* is more than twice the timeframe later than the bar expected after the
\* previously processed one, the stored LSTM states are None when the
\* prediction is made; for a smaller gap they are the states stored before
\* the cycle.
C36_GapResetsStates ==
  [][(CycleDone /\ bot'.cycle.states_at_predict # None) =>
       LET c == bot'.cycle
           gap == c.bar.time - (c.previous.time + market.timeframe)
       IN  IF gap > 2 * market.timeframe
           THEN c.states_at_predict.value = None
           ELSE c.states_at_predict.value = c.states_before
    ]_vars

\* C37: a cycle whose latest bar is last_bar_index makes no prediction and
\* no trade; a cycle that detects a new bar leaves it as last_bar_index
\* however the cycle ends, and makes at most one prediction and one trade
\* execution; no bar is predicted for or traded on twice.
C37_BarProcessedOnce ==
  [][CycleDone =>
       /\ bot.last_bar_index = BarIndex(market.latest) =>
            /\ bot'.predictions = bot.predictions
            /\ bot'.executions = bot.executions
       /\ (bot'.cycle.bar # None /\ bot'.cycle.bar # bot.last_bar_index) =>
            bot'.last_bar_index = bot'.cycle.bar
       /\ Len(bot'.predictions) <= Len(bot.predictions) + 1
       /\ Len(bot'.executions) <= Len(bot.executions) + 1
       /\ NoDuplicates(bot'.predictions)
       /\ NoDuplicates(bot'.executions)
    ]_vars

\* C37 witness: a new bar was detected in a cycle that ended without a
\* prediction, and a later cycle saw the same bar and made none either.
C37_Witness ==
  /\ bot.cycle # None
  /\ bot.cycle.outcome = "same bar"
  /\ \E i \in 1 .. Len(bot.detected) : bot.detected[i] = bot.cycle.bar.time
  /\ \A i \in 1 .. Len(bot.predictions) :
       bot.predictions[i] # bot.cycle.bar.time

\* C38: with the handlers installed, once a SIGINT or SIGTERM has been
\* delivered the loop test starts no further cycle and run() eventually
\* returns; cleanup() has run exactly once whenever run() has
\* returned after initializing, also when an exception ended the loop, and
\* never runs twice.
C38_ShutdownCleansUpOnce ==
  /\ [][(bot.pc = "test" /\ bot.signalled) => bot'.pc # "cycle"]_vars
  /\ [](bot.cleanups <= 1)
  /\ []((bot.handlers /\ bot.pc = "returned") => bot.cleanups = 1)
  /\ ((bot.handlers /\ bot.signalled) ~> (bot.pc = "returned"))

\* C38 witness: a signal arrived during the loop, run() has returned, the
\* broker is disconnected and cleanup() ran once.
C38_Witness ==
  /\ bot.handlers
  /\ bot.signalled
  /\ bot.pc = "returned"
  /\ bot.mt5 = "disconnected"
  /\ bot.cleanups = 1
  /\ bot.predictions # <<>>

(***************************************************************************)
(* Walk-forward training of train_ppo.py.  A run of main() is the record   *)
(* of its arguments and locals with its position; the runs share the files *)
(* of the results directory: training_state.json and the period models.    *)
(* A model is known by the windows it was trained on.                      *)
(***************************************************************************)
\* the runs of main() explored
MaxRuns == 2

\* the largest --initial_window and --step_size, in days
MaxDays == 2

\* the largest dataset, in half days of bars
MaxHalfDays == 8

\* bars_per_day = 24 * 4
bars_per_day == 96

\* len(data) of the datasets explored
DataRows == {h * (bars_per_day \div 2) : h \in 0 .. MaxHalfDays}

\* the files before any run; completed lists the starts of the windows
\* whose state has been saved
NoFiles == [state |-> None, models |-> {}, final |-> FALSE, completed |-> <<>>]

\* load_training_state(path)
LoadTrainingState(d) ==
  IF d.state = None
  THEN [training_start |-> 0, model_path |-> None]
  ELSE [training_start |-> d.state.training_start,
        model_path |-> d.state.model_path]

\* the start of train_walk_forward: the state is loaded and the training
\* resumes from it if its model file exists
Prologue(t, d) ==
  LET loaded == LoadTrainingState(d)
  IN  IF loaded.model_path # None /\ loaded.model_path \in d.models
      THEN [t EXCEPT !.training_start = loaded.training_start,
                     !.model = [path |-> loaded.model_path]]
      ELSE [t EXCEPT !.training_start = 0, !.model = None]

\* the while condition of train_walk_forward
WindowFits(t) ==
  t.training_start + t.initial_window + t.step_size <= t.total_periods

\* the rows of the window at training_start: train_data and val_data
Window(t) ==
  LET train_end == t.training_start + t.initial_window
      val_end == Min(train_end + t.step_size, t.total_periods)
  IN  [training_start |-> t.training_start, train_end |-> train_end,
       val_end |-> val_end]

\* period_model_path
PeriodModelPath(t) ==
  [training_start |-> t.training_start,
   train_end |-> t.training_start + t.initial_window]

\* variant of SavedTrainingStart: the start of the window just trained
SavedTrainingStartSame(t) == t.training_start

\* the training_start that save_training_state is given
SavedTrainingStart(t) == t.training_start + t.step_size

\* no run of main() has been made; the arguments of the runs are chosen
TrainInit ==
  /\ trainer \in {[pc |-> "idle", runs |-> 0, resume |-> FALSE,
                   initial_window |-> iw * bars_per_day,
                   step_size |-> ss * bars_per_day,
                   total_periods |-> n, training_start |-> 0,
                   model |-> None, trained |-> <<>>, ended |-> "none"] :
                    iw \in 1 .. MaxDays, ss \in 1 .. MaxDays, n \in DataRows}
  /\ disk = NoFiles
  /\ bot = None
  /\ market = None
  /\ NoEnvironment

\* the training leaves these alone
TrainFrame == UNCHANGED <<env_vars, bot, market>>

\* main() is started, with or without --resume, and enters the loop
Main ==
  /\ trainer.pc = "idle"
  /\ trainer.runs < MaxRuns
  /\ \E resume \in BOOLEAN :
       trainer' = [Prologue([trainer EXCEPT !.resume = resume,
                                            !.trained = <<>>,
                                            !.ended = "none"], disk)
                     EXCEPT !.pc = "loop", !.runs = @ + 1]
  /\ UNCHANGED disk
  /\ TrainFrame

\* an iteration: the model is trained on the window
Learn ==
  /\ trainer.pc = "loop"
  /\ WindowFits(trainer)
  /\ trainer' = [trainer EXCEPT !.model = [path |-> PeriodModelPath(trainer)],
                                !.trained = Append(@, Window(trainer)),
                                !.pc = "save_model"]
  /\ UNCHANGED disk
  /\ TrainFrame

\* an iteration: model.save(period_model_path)
SaveModel ==
  /\ trainer.pc = "save_model"
  /\ disk' = [disk EXCEPT !.models = @ \cup {PeriodModelPath(trainer)}]
  /\ trainer' = [trainer EXCEPT !.pc = "save_state"]
  /\ TrainFrame

\* an iteration: save_training_state(...), then training_start += step_size
SaveTrainingState ==
  /\ trainer.pc = "save_state"
  /\ disk' = [disk EXCEPT
                !.state = [training_start |-> SavedTrainingStart(trainer),
                           model_path |-> PeriodModelPath(trainer)],
                !.completed = Append(@, trainer.training_start)]
  /\ trainer' = [trainer EXCEPT !.training_start = @ + trainer.step_size,
                                !.pc = "loop"]
  /\ TrainFrame

\* the loop ends: the final model is saved, or there is no model to save
LoopEnds ==
  /\ trainer.pc = "loop"
  /\ ~WindowFits(trainer)
  /\ trainer' = [trainer EXCEPT
                   !.pc = "idle",
                   !.ended = IF trainer.model = None THEN "AttributeError"
                             ELSE "completed"]
  /\ disk' = [disk EXCEPT !.final = @ \/ trainer.model # None]
  /\ TrainFrame

\* KeyboardInterrupt during an iteration: main() returns
Interrupted ==
  /\ trainer.pc \in {"save_model", "save_state"}
     \/ (trainer.pc = "loop" /\ WindowFits(trainer))
  /\ trainer' = [trainer EXCEPT !.pc = "idle", !.ended = "interrupted"]
  /\ UNCHANGED disk
  /\ TrainFrame

TrainNext ==
  Main \/ Learn \/ SaveModel \/ SaveTrainingState \/ LoopEnds \/ Interrupted

SpecTrain == TrainInit /\ [][TrainNext]_vars

\* this transition starts a run of main()
MainStarted == trainer.pc = "idle" /\ trainer'.pc = "loop"

\* C39 as stated: a run started with --resume continues from the saved
\* state; a run started without it begins at window 0 with no model,
\* whatever state file exists.
C39_ResumeOnlyOnRequest ==
  [][MainStarted =>
       IF trainer'.resume
       THEN trainer'.training_start = LoadTrainingState(disk).training_start
       ELSE trainer'.training_start = 0 /\ trainer'.model = None
    ]_vars

\* C40: every iteration trains on the rows [start, start + initial_window)
\* and validates on the step_size rows after them, all inside the data;
\* saving the state stores the start of the next window, which is where
\* the run goes on; over all runs the windows whose state was saved start
\* at 0, step_size, 2 * step_size, ... without a gap or a repetition; the
\* loop ends only when the next window does not fit.
C40_WindowsInOrder ==
  [][/\ (trainer.pc = "loop" /\ trainer'.pc = "save_model") =>
          LET w == trainer'.trained[Len(trainer'.trained)]
          IN  /\ w.training_start = trainer.training_start
              /\ w.training_start >= 0
              /\ w.train_end = w.training_start + trainer.initial_window
              /\ w.val_end = w.train_end + trainer.step_size
              /\ w.val_end <= trainer.total_periods
     /\ (trainer.pc = "save_state" /\ trainer'.pc = "loop") =>
          /\ disk'.state.training_start =
               trainer.training_start + trainer.step_size
          /\ trainer'.training_start = disk'.state.training_start
          /\ trainer'.training_start > trainer.training_start
     /\ \A i \in 1 .. Len(disk'.completed) :
          disk'.completed[i] = (i - 1) * trainer.step_size
     /\ (trainer.pc = "loop" /\ trainer'.pc = "idle"
         /\ trainer'.ended # "interrupted") =>
          trainer.training_start + trainer.initial_window
            + trainer.step_size > trainer.total_periods
    ]_vars

\* C40 witness: a run was interrupted after it had completed a window; the
\* next run went on with the following window and ran to the end.
C40_Witness ==
  /\ trainer.runs = 2
  /\ trainer.pc = "idle"
  /\ trainer.ended = "completed"
  /\ trainer.trained # <<>>
  /\ trainer.trained[1].training_start = trainer.step_size
  /\ Len(disk.completed) = Len(trainer.trained) + 1

====
